---- MODULE Spec2Model ----
(***************************************************************************)
(* Model of the data layer of dev-events-nextjs:                           *)
(*   - src/lib/mongodb.ts          the cached Mongoose connection          *)
(*   - src/database/event.model.ts the Event schema and its pre-save gate  *)
(*   - src/database/booking.model.ts the Booking schema and pre-save hook  *)
(*   - src/unnamed/part_000        the createBooking server action         *)
(*   - src/app/api/events/[slug]/route.ts  the GET route of one Event      *)
(* Strings are sequences of one-character strings, so that trimming,       *)
(* lower-casing and the regular expressions are computed, not assumed.     *)
(***************************************************************************)
EXTENDS Integers, Sequences, FiniteSets, TLC

VARIABLES
    slugIn,      \* SpecSlug: the title handed to slugify
    slugOut,     \* SpecSlug: slugify(slugIn), or Pending
    slugOut2,    \* SpecSlug: slugify(slugOut), or Pending
    timeIn,      \* SpecTime: the value handed to normalizeTime
    timeOut,     \* SpecTime: its result, Pending before the call
    cached,      \* mongodb.ts: the MongooseCache {conn, promise}; 0 is null
    promises,    \* the promises mongoose.connect returned, by attempt number
    pc,          \* where each request context stands
    awaiting,    \* the promise a context awaits at mongodb.ts:63 (0: none)
    result,      \* what the context's last call gave back
    dpc,         \* where each disconnectFromDatabase call stands
    tearing,     \* the handle a running disconnectFromDatabase tears down
    closed,      \* history: handles whose disconnect has completed
    closedAtCall,\* history: closed, as it was when the context's call began
    returned,    \* history: handles connectToDatabase has returned
    failed,      \* history: some connection attempt was rejected
    disconnected,\* history: disconnectFromDatabase tore a connection down
    op,          \* the operation each request context runs
    args,        \* createBooking: the {eventId, email} the context passed
    outcome,     \* createBooking: how the call ended
    wrote,       \* history: the contexts whose call inserted a Booking
    bookings,    \* the Booking collection, in insertion order
    events,      \* the Event collection, in insertion order
    wpc,         \* where each Event writer stands
    wdoc,        \* the document a writer's save has handed to the store
    wres,        \* how a writer's save ended
    held,        \* history: the titles each stored Event has held
    params,      \* route.ts: the slug path parameter of the context's request
    response,    \* route.ts: the Response the context's request got
    accessed,    \* history: contexts whose request reached connectToDatabase
    lookup       \* history: whether the context's query ran, whether it
                 \* failed, and the Events that had the slug when it ran

pureVars == <<slugIn, slugOut, slugOut2, timeIn, timeOut>>
connVars == <<cached, promises, pc, awaiting, result, dpc, tearing, closed,
              closedAtCall, returned, failed, disconnected>>
bookVars == <<op, args, outcome, wrote, bookings>>
eventVars == <<events, wpc, wdoc, wres, held>>
routeVars == <<params, response, accessed, lookup>>
vars == <<pureVars, connVars, bookVars, eventVars, routeVars>>

\* ------------------------------------------------------------------ bounds
MaxTitleLen == 5
MaxTimeLen == 5
NCallers == 3          \* request contexts calling connectToDatabase
NDisconnecters == 1    \* concurrent disconnectFromDatabase calls
NBookers == 2          \* request contexts calling createBooking
NWriters == 2          \* contexts saving an Event
NRequests == 2         \* request contexts of the GET route

\* ------------------------------------------------------------ plain values
Pending == <<"pending">>
Null == "null"

\* All sequences over S of length at most n.
SeqsUpTo(S, n) == UNION {[1..k -> S] : k \in 0..n}

SetMin(S) == CHOOSE x \in S : \A y \in S : x <= y
SetMax(S) == CHOOSE x \in S : \A y \in S : x >= y

\* --------------------------------------------------- JavaScript strings
LowerLetters == {"a", "b", "m", "p", "x"}
UpperLetters == {"A", "M", "P"}
DigitChars == <<"0", "1", "2", "3", "4", "5", "6", "7", "8", "9">>
DigitSet == {DigitChars[i] : i \in 1..10}

\* \s of the regular expressions and the characters String.trim removes.
IsSpace(c) == c = " "
\* \d
IsDigit(c) == c \in DigitSet
DigitVal(c) == (CHOOSE i \in 1..10 : DigitChars[i] = c) - 1

\* One character of String.prototype.toLowerCase.
LowerChar(c) ==
    CASE c = "A" -> "a"
      [] c = "M" -> "m"
      [] c = "P" -> "p"
      [] OTHER -> c

toLowerCase(s) == [i \in 1..Len(s) |-> LowerChar(s[i])]

\* String.prototype.trim
trim(s) ==
    LET keep == {i \in 1..Len(s) : ~IsSpace(s[i])}
    IN IF keep = {} THEN <<>> ELSE SubSeq(s, SetMin(keep), SetMax(keep))

\* ------------------------------------------------------------------ slugify
\* The character class of the first replace: the apostrophe and the backtick.
\* The backtick cannot be written inside a TLA+ string, so the token "BACKTICK"
\* stands for that one character.
QuoteChars == {"'", "BACKTICK"}

\* .replace(/[quote backtick]/g, empty)
RemoveQuotes(s) == SelectSeq(s, LAMBDA c : c \notin QuoteChars)

\* [a-z0-9]
IsSlugAlnum(c) == c \in LowerLetters \/ IsDigit(c)

\* .replace(/[^a-z0-9]+/g, hyphen): every maximal run of other characters
\* becomes one hyphen.
RECURSIVE HyphenateFrom(_, _)
HyphenateFrom(s, i) ==
    IF i > Len(s) THEN <<>>
    ELSE IF IsSlugAlnum(s[i]) THEN <<s[i]>> \o HyphenateFrom(s, i + 1)
    ELSE IF i > 1 /\ ~IsSlugAlnum(s[i - 1]) THEN HyphenateFrom(s, i + 1)
    ELSE <<"-">> \o HyphenateFrom(s, i + 1)

HyphenateRuns(s) == HyphenateFrom(s, 1)

\* .replace(/(^-|-$)+/g, empty): ^- matches a hyphen at the first index only and
\* -$ a hyphen at the last index only, so one hyphen goes from each end.
StripEdgeHyphensLeadingOnly(s) ==
    IF Len(s) > 0 /\ s[1] = "-" THEN SubSeq(s, 2, Len(s)) ELSE s

StripEdgeHyphens(s) ==
    LET drop == {i \in 1..Len(s) : s[i] = "-" /\ (i = 1 \/ i = Len(s))}
        keep == {i \in 1..Len(s) : i \notin drop}
        \* the kept indices are contiguous: only the two ends can go
    IN IF keep = {} THEN <<>> ELSE SubSeq(s, SetMin(keep), SetMax(keep))

slugify(input) ==
    StripEdgeHyphens(HyphenateRuns(RemoveQuotes(trim(toLowerCase(input)))))

\* ------------------------------------------------------------ normalizeTime
\* The message of the Error normalizeTime throws.
TimeInvalid == <<"time is invalid">>

\* \s*: the first index at or after i that holds no whitespace.
RECURSIVE SkipSpaces(_, _)
SkipSpaces(s, i) ==
    IF i <= Len(s) /\ IsSpace(s[i]) THEN SkipSpaces(s, i + 1) ELSE i

\* \d{n} at index i
DigitsAt(s, i, n) ==
    /\ i + n - 1 <= Len(s)
    /\ \A k \in i..(i + n - 1) : IsDigit(s[k])

\* [ap]m at index i, under the i flag
AmPmAt(s, i) ==
    /\ i + 1 <= Len(s)
    /\ LowerChar(s[i]) \in {"a", "p"}
    /\ LowerChar(s[i + 1]) = "m"

NoMatch == [ok |-> FALSE]

\* \s*([ap]m)?\s*$ from index k: the text of group 3 (empty when the group
\* did not take part), or NoMatch.
TailMatch(s, k) ==
    LET k2 == SkipSpaces(s, k)
    IN IF k2 > Len(s) THEN [ok |-> TRUE, ampm |-> <<>>]
       ELSE IF AmPmAt(s, k2) /\ SkipSpaces(s, k2 + 2) > Len(s)
            THEN [ok |-> TRUE, ampm |-> SubSeq(s, k2, k2 + 1)]
       ELSE NoMatch

\* One way through /^\s*(\d{1,2})(?::?(\d{2}))?\s*([ap]m)?\s*$/i: group 1
\* takes hl digits; the minute group is taken with its colon ("colon"),
\* without it ("bare") or not at all ("none").
TryMatch(s, hl, mf) ==
    LET i0 == SkipSpaces(s, 1)
        j == i0 + hl
        minOk == CASE mf = "colon" -> j <= Len(s) /\ s[j] = ":" /\ DigitsAt(s, j + 1, 2)
                   [] mf = "bare" -> DigitsAt(s, j, 2)
                   [] OTHER -> TRUE
        k == CASE mf = "colon" -> j + 3
               [] mf = "bare" -> j + 2
               [] OTHER -> j
    IN IF DigitsAt(s, i0, hl) /\ minOk /\ TailMatch(s, k).ok
       THEN [ok |-> TRUE,
             g1 |-> SubSeq(s, i0, j - 1),
             g2 |-> IF mf = "none" THEN <<>> ELSE SubSeq(s, k - 2, k - 1),
             g3 |-> TailMatch(s, k).ampm]
       ELSE NoMatch

\* The order in which the backtracking matcher tries the ways: \d{1,2} is
\* greedy, the optional colon and the optional minute group prefer to match.
MatchOrder ==
    << <<2, "colon">>, <<2, "bare">>, <<2, "none">>,
       <<1, "colon">>, <<1, "bare">>, <<1, "none">> >>

\* v.match(...): the first way that matches, or NoMatch.
ampmMatch(v) ==
    LET hits == {n \in 1..Len(MatchOrder) :
                    TryMatch(v, MatchOrder[n][1], MatchOrder[n][2]).ok}
    IN IF hits = {} THEN NoMatch
       ELSE LET n == SetMin(hits)
            IN TryMatch(v, MatchOrder[n][1], MatchOrder[n][2])

\* parseInt(digits, 10) of a non-empty string of digits
RECURSIVE parseInt(_)
parseInt(d) ==
    IF Len(d) = 0 THEN 0
    ELSE 10 * parseInt(SubSeq(d, 1, Len(d) - 1)) + DigitVal(d[Len(d)])

\* String(n).padStart(2, '0') for 0 <= n < 100
padStart2(n) == <<DigitChars[(n \div 10) + 1], DigitChars[(n % 10) + 1]>>

normalizeTimeNo12Reset(value) ==
    LET v == trim(value)
        m == ampmMatch(v)
    IN IF ~m.ok THEN TimeInvalid
       ELSE LET h0 == parseInt(m.g1)
                minutes == parseInt(IF m.g2 = <<>> THEN <<"0">> ELSE m.g2)
                ampm == toLowerCase(m.g3)
                hours == IF ampm = <<"p", "m">> THEN h0 + 12 ELSE h0
            IN IF hours < 0 \/ hours > 23 \/ minutes < 0 \/ minutes > 59
               THEN TimeInvalid
               ELSE padStart2(hours) \o <<":">> \o padStart2(minutes)

normalizeTime(value) ==
    LET v == trim(value)
        m == ampmMatch(v)
    IN IF ~m.ok THEN TimeInvalid
       ELSE LET h0 == parseInt(m.g1)
                minutes == parseInt(IF m.g2 = <<>> THEN <<"0">> ELSE m.g2)
                ampm == toLowerCase(m.g3)
                h1 == IF ampm # <<>> /\ h0 = 12 THEN 0 ELSE h0
                hours == IF ampm = <<"p", "m">> THEN h1 + 12 ELSE h1
            IN IF hours < 0 \/ hours > 23 \/ minutes < 0 \/ minutes > 59
               THEN TimeInvalid
               ELSE padStart2(hours) \o <<":">> \o padStart2(minutes)


\* ------------------------------------------- the time rule, declaratively
\* The ways to read t as hour digits, minute part, whitespace and suffix:
\* hl hour digits, a minute part of ml characters, sp blanks, a suffix of xl
\* characters, together the whole of t.
TimeReadings(t, minuteLens, spaced) ==
    {r \in [hl : 1..2, ml : minuteLens, xl : {0, 2},
            sp : 0..(IF spaced THEN Len(t) ELSE 0)] :
        /\ r.hl + r.ml + r.sp + r.xl = Len(t)
        /\ \A i \in 1..r.hl : IsDigit(t[i])
        /\ r.ml = 3 => t[r.hl + 1] = ":"
        /\ \A i \in 1..r.ml : (r.ml = 3 /\ i = 1) \/ IsDigit(t[r.hl + i])
        /\ \A i \in 1..r.sp : t[r.hl + r.ml + i] = " "
        /\ r.xl = 2 => /\ t[Len(t) - 1] \in {"a", "A", "p", "P"}
                       /\ t[Len(t)] \in {"m", "M"}}

\* What the time rule gives for a reading r of t: 12 becomes 0 when a suffix
\* is present, pm adds 12, and the result must be a time of day.
TimeOfReading(t, r) ==
    LET h0 == parseInt(SubSeq(t, 1, r.hl))
        mi == IF r.ml = 0 THEN 0 ELSE parseInt(SubSeq(t, r.hl + r.ml - 1, r.hl + r.ml))
        pm == r.xl = 2 /\ t[Len(t) - 1] \in {"p", "P"}
        h1 == IF r.xl = 2 /\ h0 = 12 THEN 0 ELSE h0
        h == IF pm THEN h1 + 12 ELSE h1
    IN IF h \in 0..23 /\ mi \in 0..59
       THEN padStart2(h) \o <<":">> \o padStart2(mi)
       ELSE TimeInvalid

\* The result expected of an input when the accepted forms are those with a
\* minute part of one of the lengths minuteLens, with blanks allowed before
\* the suffix when spaced.
ExpectedTime(value, minuteLens, spaced) ==
    LET t == trim(value)
        rs == TimeReadings(t, minuteLens, spaced)
    IN IF rs = {} THEN TimeInvalid
       ELSE TimeOfReading(t, CHOOSE r \in rs : TRUE)

\* ---------------------------------------------------------- event.model.ts
\* A value of a document path: a string, or undefined.
Str(s) == [t |-> "string", s |-> s]
Undefined == [t |-> "undefined", s |-> <<>>]

\* The required string paths, in the order the pre-save hook checks them.
StringFields ==
    <<"title", "description", "overview", "image", "venue", "location",
      "mode", "audience", "organizer">>
FieldSet == {StringFields[i] : i \in 1..Len(StringFields)}

FieldIndex(x) == CHOOSE i \in 1..Len(StringFields) : StringFields[i] = x

Failure(msg) == [ok |-> FALSE, error |-> msg]

\* assertNonEmpty(value, field): the trimmed string, or the Error thrown
assertNonEmptyTypeOnly(value, field) ==
    IF value.t # "string" THEN Failure(<<field, "must be a string">>)
    ELSE [ok |-> TRUE, v |-> trim(value.s)]

assertNonEmpty(value, field) ==
    IF value.t # "string" THEN Failure(<<field, "must be a string">>)
    ELSE LET v == trim(value.s)
         IN IF v = <<>> THEN Failure(<<field, "is required">>)
            ELSE [ok |-> TRUE, v |-> v]

\* new Date(value) for the date texts of the model: the UTC calendar fields
\* of the parsed instant, or NaN for a text that is no date.
ParseDate(text) ==
    CASE text = "2025-03-10" -> [nan |-> FALSE, y |-> 2025, m |-> 3, d |-> 10]
      [] text = "March 10, 2025 UTC" -> [nan |-> FALSE, y |-> 2025, m |-> 3, d |-> 10]
      [] text = "2025-12-01T23:30:00-05:00" -> [nan |-> FALSE, y |-> 2025, m |-> 12, d |-> 2]
      [] text = "2025-12-02" -> [nan |-> FALSE, y |-> 2025, m |-> 12, d |-> 2]
      [] OTHER -> [nan |-> TRUE, y |-> 0, m |-> 0, d |-> 0]

\* String(n).padStart(2, '0') as a text
PadText(n) == IF n < 10 THEN "0" \o ToString(n) ELSE ToString(n)

\* normalizeDate(value): YYYY-MM-DD from the UTC fields, or 'date is invalid'
normalizeDate(value) ==
    LET d == ParseDate(value)
    IN IF d.nan THEN Failure("date is invalid")
       ELSE [ok |-> TRUE,
             v |-> ToString(d.y) \o "-" \o PadText(d.m) \o "-" \o PadText(d.d)]

\* !this.slug: undefined and the empty string are falsy
SlugFalsy(slug) == slug.t # "string" \/ slug.s = <<>>

\* if (this.isModified('title') || !this.slug)
RegeneratesSlugOnTitleOnly(titleModified, slug) == titleModified

RegeneratesSlug(titleModified, slug) == titleModified \/ SlugFalsy(slug)

\* EventSchema.pre('save'): the document as the hook leaves it, or the Error
\* it hands to next().  agenda and tags are arrays by their schema type, so
\* Array.isArray holds of them.
preSave(doc) ==
    LET checks == [i \in 1..Len(StringFields) |->
                      assertNonEmpty(doc.f[StringFields[i]], StringFields[i])]
        bad == {i \in 1..Len(StringFields) : ~checks[i].ok}
    IN IF bad # {} THEN Failure(checks[SetMin(bad)].error)
       ELSE IF Len(doc.agenda) = 0 THEN Failure(<<"agenda", "is required">>)
       ELSE IF Len(doc.tags) = 0 THEN Failure(<<"tags", "are required">>)
       ELSE
         LET title == checks[1].v
             \* this.title = ... marks the path modified when the value changes
             titleModified == doc.titleModified \/ Str(title) # doc.f["title"]
             regen == RegeneratesSlug(titleModified, doc.slug)
             slug == IF regen THEN slugify(title) ELSE doc.slug.s
             date == normalizeDate(doc.date)
             time == normalizeTime(doc.time)
         IN IF ~date.ok THEN Failure(<<"date", "is invalid">>)
            ELSE IF time = TimeInvalid THEN Failure(<<"time", "is invalid">>)
            ELSE [ok |-> TRUE,
                  doc |-> [isNew |-> doc.isNew,
                           id |-> doc.id,
                           f |-> [x \in FieldSet |-> checks[FieldIndex(x)].v],
                           slug |-> slug,
                           date |-> date.v,
                           time |-> time,
                           agenda |-> doc.agenda,
                           tags |-> doc.tags,
                           titleDirty |-> doc.isNew \/ titleModified,
                           slugDirty |-> doc.isNew \/ Str(slug) # doc.loadedSlug,
                           titleModified |-> titleModified,
                           hadSlug |-> ~SlugFalsy(doc.slug),
                           slugIn |-> doc.slug]]

\* new Event(attrs): the schema's setters trim the nine string paths; a new
\* document has no slug and every path that was given counts as modified.
NewDoc(attrs) ==
    [isNew |-> TRUE,
     id |-> 0,
     f |-> [x \in FieldSet |->
              IF attrs.f[x].t = "string" THEN Str(trim(attrs.f[x].s)) ELSE attrs.f[x]],
     slug |-> Undefined,
     loadedSlug |-> Undefined,
     date |-> attrs.date,
     time |-> attrs.time,
     agenda |-> attrs.agenda,
     tags |-> attrs.tags,
     titleModified |-> attrs.f["title"].t = "string"]

\* A stored Event loaded and then edited by its caller: the title is set (the
\* setter trims it, and the path counts as modified when the value differs)
\* and the slug may be cleared.
LoadedDoc(e, edit) ==
    LET title == IF edit.setTitle THEN trim(edit.title) ELSE e.f["title"]
    IN [isNew |-> FALSE,
        id |-> e.id,
        f |-> [x \in FieldSet |-> IF x = "title" THEN Str(title) ELSE Str(e.f[x])],
        slug |-> IF edit.clearSlug THEN Undefined ELSE Str(e.slug),
        loadedSlug |-> Str(e.slug),
        date |-> e.date,
        time |-> e.time,
        agenda |-> e.agenda,
        tags |-> e.tags,
        titleModified |-> title # e.f["title"]]

\* The unique index on slug: another stored Event already has this slug.
SlugTakenNever(slug, ownId) == FALSE

SlugTaken(slug, ownId) ==
    \E i \in 1..Len(events) : events[i].slug = slug /\ events[i].id # ownId

\* The document as the collection holds it.
Stored(d, id) ==
    [id |-> id, f |-> d.f, slug |-> d.slug, date |-> d.date, time |-> d.time,
     agenda |-> d.agenda, tags |-> d.tags]

Writers == 1..NWriters

NoDoc == [doc |-> [isNew |-> FALSE, id |-> 0], valid |-> FALSE]

\* What the claims call a write with all fields valid: the nine string
\* paths are strings with a character that is no whitespace, agenda and tags
\* are not empty, the date parses and the time is a time of the time rule.
ValidDocument(doc) ==
    /\ \A x \in FieldSet :
          /\ doc.f[x].t = "string"
          /\ \E i \in 1..Len(doc.f[x].s) : ~IsSpace(doc.f[x].s[i])
    /\ Len(doc.agenda) > 0
    /\ Len(doc.tags) > 0
    /\ ~ParseDate(doc.date).nan
    /\ ExpectedTime(doc.time, {0, 2, 3}, TRUE) # TimeInvalid

NoWrite ==
    [status |-> "none", error |-> <<>>, isNew |-> FALSE, id |-> 0,
     title |-> <<>>, valid |-> FALSE, titleModified |-> FALSE,
     hadSlug |-> FALSE, slugIn |-> Undefined, slugOut |-> <<>>,
     carriesSlug |-> FALSE, taken |-> FALSE, changed |-> FALSE,
     storedBefore |-> Undefined, storedAfter |-> Undefined]

EventsIdle ==
    /\ events = <<>>
    /\ wpc = [w \in Writers |-> "idle"]
    /\ wdoc = [w \in Writers |-> NoDoc]
    /\ wres = [w \in Writers |-> NoWrite]
    /\ held = <<>>

\* doc.save() up to the store: the pre-save hook runs; its Error ends the save
\* with nothing written, otherwise the insert or update is sent.
Save(w, doc) ==
    /\ wpc[w] = "idle"
    /\ \E r \in {preSave(doc)} :
          IF r.ok
          THEN /\ wpc' = [wpc EXCEPT ![w] = "writing"]
               /\ wdoc' = [wdoc EXCEPT ![w] =
                              [doc |-> r.doc, valid |-> ValidDocument(doc)]]
               /\ UNCHANGED wres
          ELSE /\ wpc' = [wpc EXCEPT ![w] = "done"]
               /\ wres' = [wres EXCEPT ![w] =
                              [NoWrite EXCEPT !.status = "validation",
                                              !.error = r.error,
                                              !.isNew = doc.isNew,
                                              !.id = doc.id,
                                              !.valid = ValidDocument(doc)]]
               /\ UNCHANGED wdoc
    /\ UNCHANGED <<events, held, pureVars, connVars, bookVars, routeVars>>

\* The store applies the write: an insert, or an update that sets the paths
\* the save modified; the unique index on slug rejects a duplicate (E11000).
EventWrite(w) ==
    /\ wpc[w] = "writing"
    /\ LET d == wdoc[w].doc
           carries == d.isNew \/ d.slugDirty
           conflict == carries /\ SlugTaken(d.slug, d.id)
           id == IF d.isNew THEN Len(events) + 1 ELSE d.id
           before == IF d.isNew THEN Undefined ELSE Str(events[d.id].slug)
       IN /\ events' =
                IF conflict THEN events
                ELSE IF d.isNew THEN Append(events, Stored(d, id))
                ELSE [events EXCEPT
                        ![id].f["title"] = IF d.titleDirty THEN d.f["title"] ELSE @,
                        ![id].slug = IF d.slugDirty THEN d.slug ELSE @]
          /\ wres' = [wres EXCEPT ![w] =
                [status |-> IF conflict THEN "conflict" ELSE "saved",
                 error |-> IF conflict THEN <<"slug", "duplicate key">> ELSE <<>>,
                 isNew |-> d.isNew,
                 id |-> IF conflict /\ d.isNew THEN 0 ELSE id,
                 title |-> d.f["title"],
                 valid |-> wdoc[w].valid,
                 titleModified |-> d.titleModified,
                 hadSlug |-> d.hadSlug,
                 slugIn |-> d.slugIn,
                 slugOut |-> d.slug,
                 carriesSlug |-> carries,
                 taken |-> \E i \in 1..Len(events) :
                              events[i].slug = d.slug /\ i # d.id,
                 changed |-> events' # events,
                 storedBefore |-> before,
                 storedAfter |-> IF conflict /\ d.isNew THEN Undefined
                                 ELSE Str(events'[id].slug)]]
    /\ held' = IF wres'[w].status = "conflict" THEN held
               ELSE IF wres'[w].isNew
                    THEN Append(held, {wres'[w].title})
               ELSE IF wdoc[w].doc.titleDirty
                    THEN [held EXCEPT ![wres'[w].id] = @ \cup {wres'[w].title}]
               ELSE held
    /\ wpc' = [wpc EXCEPT ![w] = "done"]
    /\ wdoc' = [wdoc EXCEPT ![w] = NoDoc]
    /\ UNCHANGED <<pureVars, connVars, bookVars, routeVars>>


\* ------------------------------------------------ connection manager state
Callers == 1..NCallers
Disconnecters == 1..NDisconnecters

NoResult == [kind |-> "none", h |-> 0]
Handle(h) == [kind |-> "handle", h |-> h]
Thrown == [kind |-> "error", h |-> 0]

\* const cached = globalForMongoose._mongoose ?? { conn: null, promise: null }
ConnIdle ==
    /\ cached = [conn |-> 0, promise |-> 0]
    /\ promises = <<>>
    /\ pc = [c \in Callers |-> "idle"]
    /\ awaiting = [c \in Callers |-> 0]
    /\ result = [c \in Callers |-> NoResult]
    /\ dpc = [d \in Disconnecters |-> "idle"]
    /\ tearing = [d \in Disconnecters |-> 0]
    /\ closed = {}
    /\ closedAtCall = [c \in Callers |-> {}]
    /\ returned = {}
    /\ failed = FALSE
    /\ disconnected = FALSE

NoOutcome == [kind |-> "none", success |-> FALSE, error |-> ""]
Returned(ok) == [kind |-> "returned", success |-> ok, error |-> ""]
Threw(msg) == [kind |-> "threw", success |-> FALSE, error |-> msg]

BookingsIdle ==
    /\ op = [c \in Callers |-> "none"]
    /\ args = [c \in Callers |-> [eventId |-> 0, email |-> <<>>]]
    /\ outcome = [c \in Callers |-> NoOutcome]
    /\ wrote = {}
    /\ bookings = <<>>

\* The Responses of route.ts: no Response yet, the ErrorResponse bodies with
\* their status, and the EventResponse.
NoResponse == [status |-> 0, success |-> FALSE, code |-> "", data |-> <<>>]
ErrorResponse(status, code) ==
    [status |-> status, success |-> FALSE, code |-> code, data |-> <<>>]
BadRequest == ErrorResponse(400, "BAD_REQUEST")
NotFound == ErrorResponse(404, "NOT_FOUND")
InternalError == ErrorResponse(500, "INTERNAL_ERROR")
EventResponse(event) ==
    [status |-> 200, success |-> TRUE, code |-> "", data |-> <<event>>]

NoLookup == [ran |-> FALSE, failed |-> FALSE, hits |-> {}]

RouteIdle ==
    /\ params = [c \in Callers |-> [t |-> "undefined", s |-> <<>>]]
    /\ response = [c \in Callers |-> NoResponse]
    /\ accessed = {}
    /\ lookup = [c \in Callers |-> NoLookup]

PureIdle ==
    /\ slugIn = <<>>
    /\ slugOut = Pending
    /\ slugOut2 = Pending
    /\ timeIn = <<>>
    /\ timeOut = Pending

\* A continuation of an await on a settled promise is a microtask: the
\* JavaScript job queue runs every one of them before the next task (a new
\* request, an I/O completion) starts.
MicrotaskPending ==
    \E c \in Callers :
        pc[c] = "awaitConn" /\ promises[awaiting[c]] # "pending"

\* if (!cached.promise): whether the call starts a new connection attempt
StartsAttemptAlways == TRUE

StartsAttempt == cached.promise = 0

\* The synchronous part of connectToDatabase, up to its return at line 55 or
\* its await at line 63, in a context that runs operation o.  A caller that
\* is handed the handle goes on with its operation: createBooking with
\* Booking.create, the GET route with Event.findOne, a plain caller is done.
AfterConnect(o) ==
    CASE o = "createBooking" -> "creating"
      [] o = "GET" -> "querying"
      [] OTHER -> "done"

ConnectCall(c, o) ==
    /\ ~MicrotaskPending
    /\ pc[c] = "idle"
    /\ op' = [op EXCEPT ![c] = o]
    /\ closedAtCall' = [closedAtCall EXCEPT ![c] = closed]
    /\ IF cached.conn # 0
       THEN /\ pc' = [pc EXCEPT ![c] = AfterConnect(o)]
            /\ result' = [result EXCEPT ![c] = Handle(cached.conn)]
            /\ returned' = returned \cup {cached.conn}
            /\ UNCHANGED <<cached, promises, awaiting>>
       ELSE /\ IF StartsAttempt
               THEN /\ promises' = Append(promises, "pending")
                    /\ cached' = [cached EXCEPT !.promise = Len(promises) + 1]
               ELSE UNCHANGED <<cached, promises>>
            /\ awaiting' = [awaiting EXCEPT ![c] = cached'.promise]
            /\ pc' = [pc EXCEPT ![c] = "awaitConn"]
            /\ UNCHANGED <<result, returned>>
    /\ UNCHANGED <<dpc, tearing, closed, failed, disconnected>>

\* A request context calls connectToDatabase.
connectToDatabase(c) ==
    /\ ConnectCall(c, "connect")
    /\ UNCHANGED <<args, outcome, wrote, bookings, pureVars, eventVars, routeVars>>

\* mongoose.connect(...) settles: the driver connected, or it failed.
ConnectSettles(p, ok) ==
    /\ ~MicrotaskPending
    /\ p \in 1..Len(promises)
    /\ promises[p] = "pending"
    /\ promises' = [promises EXCEPT ![p] = IF ok THEN "fulfilled" ELSE "rejected"]
    /\ failed' = (failed \/ ~ok)
    /\ UNCHANGED <<cached, pc, awaiting, result, dpc, tearing, closed,
                   closedAtCall, returned, disconnected, pureVars, bookVars,
                   eventVars, routeVars>>

\* cached.conn = await cached.promise; return cached.conn  (or the await
\* throws the rejection, and the cache is left as it is)
connectToDatabaseResume(c) ==
    /\ pc[c] = "awaitConn"
    /\ promises[awaiting[c]] # "pending"
    /\ IF promises[awaiting[c]] = "fulfilled"
       THEN /\ cached' = [cached EXCEPT !.conn = awaiting[c]]
            /\ result' = [result EXCEPT ![c] = Handle(awaiting[c])]
            /\ returned' = returned \cup {awaiting[c]}
            /\ pc' = [pc EXCEPT ![c] = AfterConnect(op[c])]
            /\ UNCHANGED <<outcome, response>>
       ELSE /\ result' = [result EXCEPT ![c] = Thrown]
            /\ pc' = [pc EXCEPT ![c] = "done"]
            \* createBooking has no catch: the rejection is its own
            /\ outcome' = IF op[c] = "createBooking"
                          THEN [outcome EXCEPT ![c] = Threw("connection failed")]
                          ELSE outcome
            \* the GET route catches it: route.ts:75-84
            /\ response' = IF op[c] = "GET"
                           THEN [response EXCEPT ![c] = InternalError]
                           ELSE response
            /\ UNCHANGED <<cached, returned>>
    /\ awaiting' = [awaiting EXCEPT ![c] = 0]
    /\ UNCHANGED <<promises, dpc, tearing, closed, closedAtCall, failed,
                   disconnected, op, args, wrote, bookings, pureVars,
                   eventVars, params, accessed, lookup>>

\* disconnectFromDatabase up to its await: if (cached.conn) await
\* mongoose.disconnect().  With no cached handle the call returns at once and
\* changes nothing.
disconnectFromDatabase(d) ==
    /\ ~MicrotaskPending
    /\ dpc[d] = "idle"
    /\ cached.conn # 0
    /\ dpc' = [dpc EXCEPT ![d] = "closing"]
    /\ tearing' = [tearing EXCEPT ![d] = cached.conn]
    /\ disconnected' = TRUE
    /\ UNCHANGED <<cached, promises, pc, awaiting, result, closed,
                   closedAtCall, returned, failed, pureVars, bookVars,
                   eventVars, routeVars>>

\* cached.conn = null; cached.promise = null
ClearedCacheKeepsPromise == [cached EXCEPT !.conn = 0]

ClearedCache == [conn |-> 0, promise |-> 0]

\* mongoose.disconnect() resolved: the rest of disconnectFromDatabase.
disconnectFromDatabaseResume(d) ==
    /\ ~MicrotaskPending
    /\ dpc[d] = "closing"
    /\ cached' = ClearedCache
    /\ closed' = closed \cup {tearing[d]}
    /\ dpc' = [dpc EXCEPT ![d] = "idle"]
    /\ tearing' = [tearing EXCEPT ![d] = 0]
    /\ UNCHANGED <<promises, pc, awaiting, result, closedAtCall, returned,
                   failed, disconnected, pureVars, bookVars, eventVars, routeVars>>

\* ------------------------------------------- booking.model.ts, createBooking
Bookers == 1..NBookers

\* How the model writes an eventId string that does not cast to an ObjectId.
MalformedId == 0

\* [^\s@]
IsAddressChar(c) == ~IsSpace(c) /\ c # "@"

\* emailRegex.test(v), emailRegex = /^[^\s@]+@[^\s@]+\.[^\s@]+$/
emailRegexTest(v) ==
    \E i \in 1..Len(v), j \in 1..Len(v) :
        /\ v[i] = "@"
        /\ v[j] = "."
        /\ 1 < i /\ i + 1 < j /\ j < Len(v)
        /\ \A k \in 1..Len(v) : k # i => IsAddressChar(v[k])

\* The setters of the email path: trim: true, lowercase: true
EmailSetters(v) == toLowerCase(trim(v))

\* Event.exists({ _id: this.eventId })
EventExistsAlways(id) == TRUE

EventExists(id) == \E i \in 1..Len(events) : events[i].id = id

\* ---------------------------------------------- inputs of createBooking
\* An address the setters make valid, one without @, one without a dot in
\* its domain.
EmailInputs ==
    { <<" ", "A", "@", "b", ".", "m">>,
      <<"a", "b", ".", "m">>,
      <<"a", "@", "b">> }

\* A string that is no ObjectId, the id the first stored Event gets, and a
\* well-formed id that no Event of this specification gets.
EventIdInputs == {MalformedId, 1, 2}

\* createBooking({ eventId, email }) up to its first await:
\* await connectToDatabase()
createBooking(c) ==
    /\ pc[c] = "idle"
    /\ \E eventId \in EventIdInputs, email \in EmailInputs :
          /\ ConnectCall(c, "createBooking")
          /\ args' = [args EXCEPT ![c] = [eventId |-> eventId, email |-> email]]
    /\ UNCHANGED <<outcome, wrote, bookings, pureVars, eventVars, routeVars>>

\* Booking.create up to the insert: the document is built (the eventId is
\* cast, the email setters run), validated (the cast, the email validator)
\* and the pre-save hook looks the Event up.  The first failure rejects the
\* save, and createBooking, which catches nothing, rejects with it.
BookingPreSave(c) ==
    /\ ~MicrotaskPending
    /\ pc[c] = "creating"
    /\ LET email == EmailSetters(args[c].email)
           error == IF args[c].eventId = MalformedId THEN "eventId cast failed"
                    ELSE IF ~emailRegexTest(email) THEN "email is invalid"
                    ELSE IF ~EventExists(args[c].eventId)
                         THEN "Referenced event does not exist"
                    ELSE ""
       IN IF error = ""
          THEN /\ pc' = [pc EXCEPT ![c] = "inserting"]
               /\ UNCHANGED outcome
          ELSE /\ pc' = [pc EXCEPT ![c] = "done"]
               /\ outcome' = [outcome EXCEPT ![c] = Threw(error)]
    /\ UNCHANGED <<cached, promises, awaiting, result, dpc, tearing, closed,
                   closedAtCall, returned, failed, disconnected, op, args,
                   wrote, bookings, pureVars, eventVars, routeVars>>

\* The store answers the insert: the Booking is written and createBooking
\* returns { success: true }, or the store fails and createBooking rejects.
BookingInsert(c, ok) ==
    /\ ~MicrotaskPending
    /\ pc[c] = "inserting"
    /\ IF ok
       THEN /\ bookings' = Append(bookings,
                              [eventId |-> args[c].eventId,
                               email |-> EmailSetters(args[c].email)])
            /\ wrote' = wrote \cup {c}
            /\ outcome' = [outcome EXCEPT ![c] = Returned(TRUE)]
       ELSE /\ outcome' = [outcome EXCEPT ![c] = Threw("store error")]
            /\ UNCHANGED <<bookings, wrote>>
    /\ pc' = [pc EXCEPT ![c] = "done"]
    /\ UNCHANGED <<cached, promises, awaiting, result, dpc, tearing, closed,
                   closedAtCall, returned, failed, disconnected, op, args,
                   pureVars, eventVars, routeVars>>

\* ------------------------------------------------------ inputs of the writes
\* Event attributes with every path valid, under the given title.
BaseAttrs(title) ==
    [f |-> [x \in FieldSet |-> IF x = "title" THEN title ELSE Str(<<" ", "x">>)],
     date |-> "March 10, 2025 UTC",
     time |-> <<"2", "p", "m">>,
     agenda |-> << <<"a">> >>,
     tags |-> << <<"a">> >>]

NoFault == [kind |-> "none", field |-> "", value |-> Undefined]

\* One thing wrong with the attributes besides the title.
Faults ==
    {NoFault}
    \cup {[kind |-> "field", field |-> x, value |-> v] :
            x \in FieldSet \ {"title"}, v \in {Undefined, Str(<<" ">>)}}
    \cup {[kind |-> k, field |-> "", value |-> Undefined] :
            k \in {"agenda", "tags", "date", "time"}}

WithFault(attrs, fault) ==
    CASE fault.kind = "field" ->
            [attrs EXCEPT !.f = [attrs.f EXCEPT ![fault.field] = fault.value]]
      [] fault.kind = "agenda" -> [attrs EXCEPT !.agenda = <<>>]
      [] fault.kind = "tags" -> [attrs EXCEPT !.tags = <<>>]
      [] fault.kind = "date" -> [attrs EXCEPT !.date = "soon"]
      [] fault.kind = "time" -> [attrs EXCEPT !.time = <<"2", "6", "p", "m">>]
      [] OTHER -> attrs

TitleTexts == {<<" ">>, <<"a">>, <<"A", " ">>, <<"!">>, <<"b">>}
TitleChoices == {Undefined} \cup {Str(t) : t \in TitleTexts}

EventInputs == {WithFault(BaseAttrs(t), fl) : t \in TitleChoices, fl \in Faults}

Edits ==
    {[setTitle |-> FALSE, title |-> <<>>, clearSlug |-> cs] : cs \in BOOLEAN}
    \cup {[setTitle |-> TRUE, title |-> t, clearSlug |-> cs] :
            t \in TitleTexts, cs \in BOOLEAN}

\* Event.create(attrs)
EventCreate(w, inputs) ==
    /\ wpc[w] = "idle"
    /\ \E attrs \in inputs : Save(w, NewDoc(attrs))

\* const e = await Event.findById(id); e.set(...); await e.save()
EventUpdate(w) ==
    /\ wpc[w] = "idle"
    /\ \E id \in 1..Len(events), edit \in Edits :
          Save(w, LoadedDoc(events[id], edit))

\* ------------------------------------------------ SpecEvent (event.model.ts)
InitEvent == ConnIdle /\ PureIdle /\ BookingsIdle /\ EventsIdle /\ RouteIdle

NextEvent ==
    \/ \E w \in Writers : EventCreate(w, EventInputs)
    \/ \E w \in Writers : EventUpdate(w)
    \/ \E w \in Writers : EventWrite(w)

SpecEvent == InitEvent /\ [][NextEvent]_vars

\* ------------------------------------------- Spec (createBooking and its store)
\* The Event the bookings are made for, written by one writer meanwhile.
BookedEventInputs == {BaseAttrs(Str(<<"a">>))}

Init == ConnIdle /\ PureIdle /\ BookingsIdle /\ EventsIdle /\ RouteIdle

Next ==
    \/ \E c \in Bookers : createBooking(c)
    \/ \E p \in 1..NCallers, ok \in BOOLEAN : ConnectSettles(p, ok)
    \/ \E c \in Callers : connectToDatabaseResume(c)
    \/ \E c \in Bookers : BookingPreSave(c)
    \/ \E c \in Bookers, ok \in BOOLEAN : BookingInsert(c, ok)
    \/ EventCreate(1, BookedEventInputs)
    \/ EventWrite(1)

Spec == Init /\ [][Next]_vars

\* ------------------------------------------------- SpecConn (mongodb.ts)
InitConn == ConnIdle /\ PureIdle /\ BookingsIdle /\ EventsIdle /\ RouteIdle

NextConn ==
    \/ \E c \in Callers : connectToDatabase(c)
    \/ \E p \in 1..NCallers, ok \in BOOLEAN : ConnectSettles(p, ok)
    \/ \E c \in Callers : connectToDatabaseResume(c)
    \/ \E d \in Disconnecters : disconnectFromDatabase(d)
    \/ \E d \in Disconnecters : disconnectFromDatabaseResume(d)

SpecConn == InitConn /\ [][NextConn]_vars

\* C1: while no disconnect has happened and no attempt has failed, any
\* number of connectToDatabase calls establish one connection: callers that
\* arrive during the attempt await that attempt, callers that arrive later
\* get the cached handle, and every caller receives the same handle.
C1_OneConnection ==
    (~disconnected /\ ~failed) =>
        /\ Len(promises) <= 1
        /\ \A c \in Callers : pc[c] = "awaitConn" => awaiting[c] = 1
        /\ \A c \in Callers : result[c].kind = "handle" => result[c].h = 1
        /\ returned \subseteq {1}
        /\ cached.conn \in {0, 1}
        /\ \A c \in Callers : result[c].kind # "error"

\* Two callers arrived while the one attempt was in flight; it resolved, the
\* first caller has its handle and the second is about to get the same one.
C1_Witness ==
    /\ ~disconnected /\ ~failed
    /\ Len(promises) = 1
    /\ pc[1] = "done" /\ result[1] = Handle(1)
    /\ pc[2] = "awaitConn" /\ awaiting[2] = 1

\* C2: once a failed attempt has been delivered to its waiters the manager
\* is UNINITIALIZED again: the cache holds no rejected attempt, so a later
\* call starts a fresh attempt.
C2_FailureClearsCache ==
    ~MicrotaskPending =>
        (cached.promise = 0 \/ promises[cached.promise] # "rejected")

\* C3: once disconnectFromDatabase has completed for a handle, the cache
\* holds neither that handle nor the attempt that produced it, and a
\* connectToDatabase call that begins afterwards is given a newly
\* established connection, never the torn-down handle.
C3_CleanReconnect ==
    /\ cached.conn \notin closed
    /\ cached.promise \notin closed
    /\ \A c \in Callers :
        result[c].kind = "handle" => result[c].h \notin closedAtCall[c]
    /\ \A c \in Callers :
        pc[c] = "awaitConn" => awaiting[c] \notin closedAtCall[c]

\* A disconnect of handle 1 completed, and a call that began after it was
\* given the handle of a second connection.
C3_Witness ==
    \E c \in Callers :
        /\ closedAtCall[c] = {1}
        /\ result[c] = Handle(2)
        /\ cached = [conn |-> 2, promise |-> 2]


\* C4: a createBooking call whose eventId matches no stored Event, or whose
\* email does not match the pattern after trimming and lower-casing, fails
\* and writes nothing, whatever other calls and Event writes do meanwhile:
\* the collection holds exactly the Bookings of the calls that succeeded,
\* each with a valid email and the id of a stored Event.
C4_FailedBookingWritesNothing ==
    /\ \A c \in Callers :
         (/\ op[c] = "createBooking"
          /\ pc[c] = "done"
          /\ \/ ~emailRegexTest(EmailSetters(args[c].email))
             \/ \A i \in 1..Len(events) : events[i].id # args[c].eventId)
         => (outcome[c].kind = "threw" /\ c \notin wrote)
    /\ \A c \in Callers : outcome[c].kind = "threw" => c \notin wrote
    /\ \A c \in Callers :
         pc[c] = "inserting" =>
            /\ emailRegexTest(EmailSetters(args[c].email))
            /\ \E i \in 1..Len(events) : events[i].id = args[c].eventId
    /\ Len(bookings) = Cardinality(wrote)
    /\ \A n \in 1..Len(bookings) :
         /\ emailRegexTest(bookings[n].email)
         /\ \E i \in 1..Len(events) : events[i].id = bookings[n].eventId

\* One call failed on its email and another on its eventId while the Event
\* collection was being written, and the Booking collection is still empty.
C4_Witness ==
    /\ outcome[1] = Threw("email is invalid")
    /\ outcome[2] = Threw("Referenced event does not exist")
    /\ Len(events) = 1
    /\ bookings = <<>>

\* C5: every createBooking call completes by returning {success: boolean},
\* true when the Booking was persisted, and a failure of the validator or of
\* the store comes back as success false in that value.
C5_AlwaysReturnsSuccessFlag ==
    \A c \in Callers :
        (op[c] = "createBooking" /\ pc[c] = "done") =>
            /\ outcome[c].kind = "returned"
            /\ outcome[c].success <=> c \in wrote

\* C6: no two stored Events ever have the same slug.  A write that carries a
\* slug another stored Event has fails with a conflict and leaves the
\* collection as it was; a write that is accepted stores the slug as derived,
\* without a suffix.
C6_UniqueSlugs ==
    /\ \A i, j \in 1..Len(events) : i # j => events[i].slug # events[j].slug
    /\ \A w \in Writers :
         wres[w].status \in {"saved", "conflict"} =>
            /\ wres[w].carriesSlug => (wres[w].status = "conflict" <=> wres[w].taken)
            /\ ~wres[w].carriesSlug => wres[w].status = "saved"
            /\ wres[w].status = "conflict" => ~wres[w].changed
            /\ (wres[w].status = "saved" /\ wres[w].carriesSlug) =>
                  wres[w].storedAfter = Str(wres[w].slugOut)

\* Two creates with titles of the same slug were in flight together: the
\* first was stored, the second got the conflict, one Event is stored.
C6_Witness ==
    /\ wres[1].status = "saved" /\ wres[1].isNew
    /\ wres[2].status = "conflict" /\ wres[2].isNew
    /\ wres[1].slugOut = wres[2].slugOut
    /\ wres[1].title # wres[2].title
    /\ Len(events) = 1

C8_ValidWriteSucceeds ==
    \A w \in Writers :
        wpc[w] = "done" =>
            /\ ~wres[w].valid => (wres[w].status = "validation" /\ ~wres[w].changed)
            /\ wres[w].valid => wres[w].status = "saved"

\* C8 (amended): the gate lets a write through only if all fields are valid;
\* a violation fails the write with a validation error and nothing is
\* persisted; a write with all fields valid passes the gate and is stored,
\* with the slug generated from its title, unless the store rejects it
\* because another stored Event has that slug.
C8_GateRule ==
    /\ \A w \in Writers :
         /\ wpc[w] = "writing" => wdoc[w].valid
         /\ wpc[w] = "done" =>
              /\ ~wres[w].valid =>
                    (wres[w].status = "validation" /\ ~wres[w].changed)
              /\ wres[w].valid =>
                    \/ wres[w].status = "saved"
                    \/ wres[w].status = "conflict" /\ wres[w].taken
              /\ (wres[w].status = "saved" /\ wres[w].isNew) =>
                    /\ wres[w].id \in 1..Len(events)
                    /\ wres[w].storedAfter = Str(slugify(wres[w].title))
    /\ Len(events) =
         Cardinality({w \in Writers : wres[w].status = "saved" /\ wres[w].isNew})
    /\ \A i \in 1..Len(events) :
         /\ \A x \in FieldSet :
              events[i].f[x] # <<>> /\ trim(events[i].f[x]) = events[i].f[x]
         /\ events[i].agenda # <<>>
         /\ events[i].tags # <<>>
         /\ ~ParseDate(events[i].date).nan
         /\ ExpectedTime(events[i].time, {3}, FALSE) = events[i].time

\* A write with an empty agenda failed with the validation error and a
\* write with all fields valid was stored with its generated slug.
C8_Witness ==
    /\ wres[1].status = "validation"
    /\ wres[1].error = <<"agenda", "is required">>
    /\ wres[2].status = "saved" /\ wres[2].valid /\ wres[2].isNew
    /\ Len(events) = 1
    /\ events[1].slug = <<"a">>

\* ------------------------------------------------------- SpecSlug (slugify)
SlugChars == {"a", "A", "1", "-", "'", " ", "!"}
TitleInputs == SeqsUpTo(SlugChars, MaxTitleLen)

InitSlug ==
    /\ slugIn \in TitleInputs
    /\ slugOut = Pending
    /\ slugOut2 = Pending
    /\ timeIn = <<>>
    /\ timeOut = Pending
    /\ ConnIdle /\ BookingsIdle /\ EventsIdle /\ RouteIdle

Slugify ==
    /\ slugOut = Pending
    /\ slugOut' = slugify(slugIn)
    /\ UNCHANGED <<slugIn, slugOut2, timeIn, timeOut, connVars, bookVars, eventVars, routeVars>>

SlugifyAgain ==
    /\ slugOut # Pending
    /\ slugOut2 = Pending
    /\ slugOut2' = slugify(slugOut)
    /\ UNCHANGED <<slugIn, slugOut, timeIn, timeOut, connVars, bookVars, eventVars, routeVars>>

NextSlug == Slugify \/ SlugifyAgain

SpecSlug == InitSlug /\ [][NextSlug]_vars

\* C10: for every title, slugify(title) contains only characters of
\* [a-z0-9-], has no leading or trailing hyphen, and slugifying the result
\* again gives the same result.
C10_SlugShapeAndIdempotent ==
    /\ slugOut # Pending =>
        /\ \A i \in 1..Len(slugOut) : IsSlugAlnum(slugOut[i]) \/ slugOut[i] = "-"
        /\ Len(slugOut) > 0 => slugOut[1] # "-" /\ slugOut[Len(slugOut)] # "-"
    /\ slugOut2 # Pending => slugOut2 = slugOut

\* A title with upper case, a quote, a run of separators at both ends and
\* inside has been slugified twice and the result is not empty.
C10_Witness ==
    /\ slugIn = <<" ", "A", "'", "!", "1">>
    /\ slugOut = <<"a", "-", "1">>
    /\ slugOut2 = <<"a", "-", "1">>

\* -------------------------------------------------- SpecTime (normalizeTime)
TimeChars == {"1", "2", "6", ":", "A", "p", "m", " "}
TimeInputs == SeqsUpTo(TimeChars, MaxTimeLen)

InitTime ==
    /\ timeIn \in TimeInputs
    /\ timeOut = Pending
    /\ slugIn = <<>>
    /\ slugOut = Pending
    /\ slugOut2 = Pending
    /\ ConnIdle /\ BookingsIdle /\ EventsIdle /\ RouteIdle

NormalizeTime ==
    /\ timeOut = Pending
    /\ timeOut' = normalizeTime(timeIn)
    /\ UNCHANGED <<timeIn, slugIn, slugOut, slugOut2, connVars, bookVars, eventVars, routeVars>>

NextTime == NormalizeTime

SpecTime == InitTime /\ [][NextTime]_vars

\* C9 (as written): normalizeTime accepts exactly the forms H, HH, H:mm and
\* HH:mm, each with an optional trailing am/pm, rejects anything else, and
\* converts an accepted input by the 12 -> 0, pm + 12 rule into HH:mm.
C9_OnlyColonForms ==
    timeOut # Pending => timeOut = ExpectedTime(timeIn, {0, 3}, FALSE)

\* C9 (amended): the colon before the minutes is optional (Hmm and HHmm are
\* accepted too) and whitespace may surround the value and separate it from
\* the am/pm suffix; everything else is rejected with 'time is invalid', and
\* an accepted input is converted by the 12 -> 0, pm + 12 rule, must give an
\* hour in 0..23 and a minute in 0..59, and comes out as zero-padded HH:mm.
C9_TimeRule ==
    timeOut # Pending => timeOut = ExpectedTime(timeIn, {0, 2, 3}, TRUE)

\* "12pm" was normalized: the hour 12 became 0 before 12 was added.
C9_Witness ==
    /\ timeIn = <<"1", "2", "p", "m">>
    /\ timeOut = <<"1", "2", ":", "0", "0">>

\* ------------------------------------------ app/api/events/[slug]/route.ts
\* trimmed.length > 200
MaxSlugLength == 200

\* isValidSlug(value): a string whose trimmed length is in 1..200
isValidSlugAnyLength(value) ==
    value.t = "string" /\ Len(trim(value.s)) # 0

isValidSlug(value) ==
    IF value.t # "string" THEN FALSE
    ELSE LET trimmed == trim(value.s)
         IN ~(Len(trimmed) = 0 \/ Len(trimmed) > MaxSlugLength)

Requesters == 1..NRequests

\* n times the character ch
Repeat(ch, n) == [i \in 1..n |-> ch]

\* The slug path parameters of the requests: none, empty, blank, the slug of
\* the stored Event, the same with a blank before it (the slug of no
\* Event), a slug one character longer than the longest valid one, and one
\* of the longest valid length once its blank is trimmed.
SlugParams ==
    {Undefined, Str(<<>>), Str(<<" ">>), Str(<<"a">>), Str(<<" ", "a">>),
     Str(Repeat("a", MaxSlugLength + 1)),
     Str(<<" ">> \o Repeat("a", MaxSlugLength))}

\* GET up to its first return or await: the slug is read from the resolved
\* params and validated (lines 38-51), then await connectToDatabase().
GET(g) ==
    /\ ~MicrotaskPending
    /\ pc[g] = "idle"
    /\ \E slug \in SlugParams :
          /\ params' = [params EXCEPT ![g] = slug]
          /\ IF SlugFalsy(slug) \/ ~isValidSlug(slug)
             THEN /\ response' = [response EXCEPT ![g] = BadRequest]
                  /\ pc' = [pc EXCEPT ![g] = "done"]
                  /\ op' = [op EXCEPT ![g] = "GET"]
                  /\ UNCHANGED <<cached, promises, awaiting, result, dpc,
                                 tearing, closed, closedAtCall, returned,
                                 failed, disconnected, accessed>>
             ELSE /\ ConnectCall(g, "GET")
                  /\ accessed' = accessed \cup {g}
                  /\ UNCHANGED response
    /\ UNCHANGED <<lookup, args, outcome, wrote, bookings, pureVars, eventVars>>

\* Event.findOne({ slug }).lean().exec() is answered: the first Event with
\* exactly the slug of the request, or null, or the query fails and the
\* catch answers.
EventFindOne(g, ok) ==
    /\ ~MicrotaskPending
    /\ pc[g] = "querying"
    /\ LET hits == {i \in 1..Len(events) : events[i].slug = params[g].s}
       IN /\ lookup' = [lookup EXCEPT ![g] =
                           [ran |-> TRUE, failed |-> ~ok, hits |-> hits]]
          /\ response' = [response EXCEPT ![g] =
                IF ~ok THEN InternalError
                ELSE IF hits = {} THEN NotFound
                ELSE EventResponse(events[SetMin(hits)])]
    /\ pc' = [pc EXCEPT ![g] = "done"]
    /\ UNCHANGED <<cached, promises, awaiting, result, dpc, tearing, closed,
                   closedAtCall, returned, failed, disconnected, params,
                   accessed, bookVars, pureVars, eventVars>>

\* ----------------------------------------------------- SpecRoute (route.ts)
\* The Event the requests ask for, written by one writer meanwhile.
RouteEventInputs == {BaseAttrs(Str(<<"a">>))}

InitRoute == ConnIdle /\ PureIdle /\ BookingsIdle /\ EventsIdle /\ RouteIdle

NextRoute ==
    \/ \E g \in Requesters : GET(g)
    \/ \E p \in 1..NCallers, ok \in BOOLEAN : ConnectSettles(p, ok)
    \/ \E g \in Requesters : connectToDatabaseResume(g)
    \/ \E g \in Requesters, ok \in BOOLEAN : EventFindOne(g, ok)
    \/ EventCreate(1, RouteEventInputs)
    \/ EventWrite(1)

SpecRoute == InitRoute /\ [][NextRoute]_vars

C12_StoredSlugFetchable ==
    \A i \in 1..Len(events) :
        /\ events[i].slug # <<>>
        /\ \E title \in held[i] : events[i].slug = slugify(title)
        /\ ~SlugFalsy(Str(events[i].slug))
        /\ isValidSlug(Str(events[i].slug))

====
